---- MODULE Spec2Model ----
(***************************************************************************)
(* Model of the Hnefatafl rules engine (src/src/game.rs): GameState, its   *)
(* two starting layouts, legal_moves, make_move, check_captures,           *)
(* can_capture, is_king_surrounded and check_game_end.                     *)
(*                                                                         *)
(* An Option<T> of the source is a sequence of length 0 (None) or 1        *)
(* (Some(x)) for positions and moves, and the string "None" for pieces and *)
(* results.  The operations are operators over a GameState record, so that *)
(* a caller can apply them to a copy; the variables hold the one canonical *)
(* GameState, and MakeMove stores the outcome of make_move on it.          *)
(***************************************************************************)
EXTENDS Integers, Sequences, FiniteSets, TLC

VARIABLES board, variant, board_size, current_player, king_position,
          move_count, result, ret, lastMv, captured, line, botRet

state_vars == <<board, variant, board_size, current_player, king_position,
                move_count, result>>
vars == <<board, variant, board_size, current_player, king_position,
          move_count, result, ret, lastMv, captured, line, botRet>>

-----------------------------------------------------------------------------
(* Constants and types                                                     *)

COPENHAGEN_SIZE == 11
BRANDUBH_SIZE == 7
MAX_BOARD_SIZE == 11

Variants == {"Copenhagen", "Brandubh"}

variant_board_size(v) == IF v = "Copenhagen" THEN COPENHAGEN_SIZE ELSE BRANDUBH_SIZE

opponent(p) == IF p = "Attackers" THEN "Defenders" ELSE "Attackers"

Position(r, c) == [row |-> r, col |-> c]

Move(f, t) == [from |-> f, to |-> t]

Idx == 0 .. (MAX_BOARD_SIZE - 1)

EmptyBoard == [r \in Idx |-> [c \in Idx |-> "None"]]

(* board[r][c] := p for every (r, c) of the sequence cells *)
RECURSIVE place(_, _, _)
place(b, cells, p) ==
    IF cells = <<>> THEN b
    ELSE place([b EXCEPT ![Head(cells)[1]][Head(cells)[2]] = p], Tail(cells), p)

-----------------------------------------------------------------------------
(* Setup                                                                   *)

setup_copenhagen(s) ==
    LET center == COPENHAGEN_SIZE \div 2
        defenders == << <<center - 1, center>>, <<center + 1, center>>,
                        <<center, center - 1>>, <<center, center + 1>>,
                        <<center - 2, center>>, <<center + 2, center>>,
                        <<center, center - 2>>, <<center, center + 2>> >>
        attackers == << <<0, 3>>, <<0, 4>>, <<0, 5>>, <<0, 6>>, <<0, 7>>, <<1, 5>>,
                        <<10, 3>>, <<10, 4>>, <<10, 5>>, <<10, 6>>, <<10, 7>>, <<9, 5>>,
                        <<3, 0>>, <<4, 0>>, <<5, 0>>, <<6, 0>>, <<7, 0>>, <<5, 1>>,
                        <<3, 10>>, <<4, 10>>, <<5, 10>>, <<6, 10>>, <<7, 10>>, <<5, 9>> >>
        b1 == [s.board EXCEPT ![center][center] = "King"]
        b2 == place(b1, defenders, "Defender")
        b3 == place(b2, attackers, "Attacker")
    IN [s EXCEPT !.board = b3, !.king_position = <<Position(center, center)>>]

(* setup_brandubh with the attacker of (3, 6) left out *)
setup_brandubh_short(s) ==
    LET center == BRANDUBH_SIZE \div 2
        defenders == << <<center - 1, center>>, <<center + 1, center>>,
                        <<center, center - 1>>, <<center, center + 1>> >>
        attackers == << <<0, 3>>, <<1, 3>>, <<5, 3>>, <<6, 3>>,
                        <<3, 0>>, <<3, 1>>, <<3, 5>> >>
        b1 == [s.board EXCEPT ![center][center] = "King"]
        b2 == place(b1, defenders, "Defender")
        b3 == place(b2, attackers, "Attacker")
    IN [s EXCEPT !.board = b3, !.king_position = <<Position(center, center)>>]

setup_brandubh(s) ==
    LET center == BRANDUBH_SIZE \div 2
        defenders == << <<center - 1, center>>, <<center + 1, center>>,
                        <<center, center - 1>>, <<center, center + 1>> >>
        attackers == << <<0, 3>>, <<1, 3>>, <<5, 3>>, <<6, 3>>,
                        <<3, 0>>, <<3, 1>>, <<3, 5>>, <<3, 6>> >>
        b1 == [s.board EXCEPT ![center][center] = "King"]
        b2 == place(b1, defenders, "Defender")
        b3 == place(b2, attackers, "Attacker")
    IN [s EXCEPT !.board = b3, !.king_position = <<Position(center, center)>>]

new(v) ==
    LET state == [board |-> EmptyBoard,
                  variant |-> v,
                  board_size |-> variant_board_size(v),
                  current_player |-> "Attackers",
                  king_position |-> <<>>,
                  move_count |-> 0,
                  result |-> "None"]
    IN IF v = "Copenhagen" THEN setup_copenhagen(state) ELSE setup_brandubh(state)

-----------------------------------------------------------------------------
(* Queries                                                                 *)

is_game_over(s) == s.result # "None"

get_piece(s, pos) ==
    IF pos.row < s.board_size /\ pos.col < s.board_size
    THEN s.board[pos.row][pos.col]
    ELSE "None"

is_corner(s, pos) ==
    \/ (pos.row = 0 /\ pos.col = 0)
    \/ (pos.row = 0 /\ pos.col = s.board_size - 1)
    \/ (pos.row = s.board_size - 1 /\ pos.col = 0)
    \/ (pos.row = s.board_size - 1 /\ pos.col = s.board_size - 1)

is_throne(s, pos) ==
    LET center == s.board_size \div 2
    IN pos.row = center /\ pos.col = center

(* piece_belongs_to_current_player without the test of the side to move *)
piece_belongs_to_anyone(s, piece) == piece \in {"Attacker", "Defender", "King"}

piece_belongs_to_current_player(s, piece) ==
    \/ (piece = "Attacker" /\ s.current_player = "Attackers")
    \/ (piece \in {"Defender", "King"} /\ s.current_player = "Defenders")

(* directions with left tried before right *)
directions_left_first == << <<0, -1>>, <<0, 1>>, <<1, 0>>, <<-1, 0>> >>

directions == << <<0, 1>>, <<0, -1>>, <<1, 0>>, <<-1, 0>> >>

(* the bounds test against the capacity of the backing array *)
in_bounds_max(s, r, c) == ~(r < 0 \/ r >= MAX_BOARD_SIZE \/ c < 0 \/ c >= MAX_BOARD_SIZE)

in_bounds(s, r, c) == ~(r < 0 \/ r >= s.board_size \/ c < 0 \/ c >= s.board_size)

-----------------------------------------------------------------------------
(* Move generator                                                          *)

(* slide that takes the first occupied cell of the ray as a destination *)
RECURSIVE slide_onto(_, _, _, _, _, _)
slide_onto(s, piece, from, r, c, d) ==
    LET r2 == r + d[1]
        c2 == c + d[2]
        to == Position(r2, c2)
    IN IF ~in_bounds(s, r2, c2) THEN <<>>
       ELSE IF get_piece(s, to) # "None" THEN <<Move(from, to)>>
       ELSE IF piece # "King" /\ (is_throne(s, to) \/ is_corner(s, to)) THEN <<>>
       ELSE <<Move(from, to)>> \o slide_onto(s, piece, from, r2, c2, d)

(* slide without the rule that only the King enters the throne or a corner *)
RECURSIVE slide_unrestricted(_, _, _, _, _, _)
slide_unrestricted(s, piece, from, r, c, d) ==
    LET r2 == r + d[1]
        c2 == c + d[2]
        to == Position(r2, c2)
    IN IF ~in_bounds(s, r2, c2) THEN <<>>
       ELSE IF get_piece(s, to) # "None" THEN <<>>
       ELSE <<Move(from, to)>> \o slide_unrestricted(s, piece, from, r2, c2, d)

(* slide with the throne and the corners closed to the King as well *)
RECURSIVE slide_king_restricted(_, _, _, _, _, _)
slide_king_restricted(s, piece, from, r, c, d) ==
    LET r2 == r + d[1]
        c2 == c + d[2]
        to == Position(r2, c2)
    IN IF ~in_bounds(s, r2, c2) THEN <<>>
       ELSE IF get_piece(s, to) # "None" THEN <<>>
       ELSE IF is_throne(s, to) \/ is_corner(s, to) THEN <<>>
       ELSE <<Move(from, to)>> \o slide_king_restricted(s, piece, from, r2, c2, d)

(* the loop of legal_moves_for_piece in one direction d, from (r, c) on *)
RECURSIVE slide(_, _, _, _, _, _)
slide(s, piece, from, r, c, d) ==
    LET r2 == r + d[1]
        c2 == c + d[2]
        to == Position(r2, c2)
    IN IF ~in_bounds(s, r2, c2) THEN <<>>
       ELSE IF get_piece(s, to) # "None" THEN <<>>
       ELSE IF piece # "King" /\ (is_throne(s, to) \/ is_corner(s, to)) THEN <<>>
       ELSE <<Move(from, to)>> \o slide(s, piece, from, r2, c2, d)

legal_moves_for_piece(s, from) ==
    LET piece == get_piece(s, from)
    IN slide(s, piece, from, from.row, from.col, directions[1])
       \o slide(s, piece, from, from.row, from.col, directions[2])
       \o slide(s, piece, from, from.row, from.col, directions[3])
       \o slide(s, piece, from, from.row, from.col, directions[4])

(* the inner loop of legal_moves: the cells of one row from column col on *)
RECURSIVE scan_cols(_, _, _)
scan_cols(s, row, col) ==
    IF col >= s.board_size THEN <<>>
    ELSE LET pos == Position(row, col)
             piece == get_piece(s, pos)
         IN (IF piece # "None" /\ piece_belongs_to_current_player(s, piece)
             THEN legal_moves_for_piece(s, pos)
             ELSE <<>>)
            \o scan_cols(s, row, col + 1)

(* the outer loop of legal_moves: the rows from row on *)
RECURSIVE scan_rows(_, _)
scan_rows(s, row) ==
    IF row >= s.board_size THEN <<>>
    ELSE scan_cols(s, row, 0) \o scan_rows(s, row + 1)

(* legal_moves without the early return of lines 304-306 *)
legal_moves_ignoring_result(s) == scan_rows(s, 0)

legal_moves(s) ==
    IF is_game_over(s) THEN <<>> ELSE scan_rows(s, 0)

(* Vec::contains *)
contains(seq, x) == \E i \in 1 .. Len(seq) : seq[i] = x

Range(seq) == {seq[i] : i \in 1 .. Len(seq)}

-----------------------------------------------------------------------------
(* Capture resolver                                                        *)

is_king_surrounded(s, king_pos) ==
    \A i \in 1 .. 4 :
        LET r == king_pos.row + directions[i][1]
            c == king_pos.col + directions[i][2]
            pos == Position(r, c)
        IN \/ ~in_bounds(s, r, c)
           \/ is_throne(s, pos) \/ is_corner(s, pos)
           \/ get_piece(s, pos) = "Attacker"

(* can_capture without the same-side test of lines 441-448 *)
can_capture_any_side(s, attacker, target) ==
    LET target_piece == get_piece(s, target)
        dr == target.row - attacker.row
        dc == target.col - attacker.col
        opposite_r == target.row + dr
        opposite_c == target.col + dc
        opposite == Position(opposite_r, opposite_c)
        opposite_piece == get_piece(s, opposite)
    IN IF target_piece = "King" THEN is_king_surrounded(s, target)
       ELSE IF ~in_bounds(s, opposite_r, opposite_c) THEN FALSE
       ELSE IF is_throne(s, opposite) \/ is_corner(s, opposite) THEN TRUE
       ELSE IF opposite_piece # "None"
            THEN \/ (target_piece = "Attacker" /\ opposite_piece \in {"Defender", "King"})
                 \/ (target_piece = "Defender" /\ opposite_piece = "Attacker")
            ELSE FALSE

(* can_capture with the throne hostile only while it is empty *)
can_capture_empty_throne(s, attacker, target) ==
    LET attacker_piece == get_piece(s, attacker)
        target_piece == get_piece(s, target)
        dr == target.row - attacker.row
        dc == target.col - attacker.col
        opposite_r == target.row + dr
        opposite_c == target.col + dc
        opposite == Position(opposite_r, opposite_c)
        opposite_piece == get_piece(s, opposite)
    IN IF \/ (attacker_piece = "Attacker" /\ target_piece = "Attacker")
          \/ (attacker_piece = "Defender" /\ target_piece = "Defender")
          \/ (attacker_piece = "King" /\ target_piece = "Defender")
          \/ (attacker_piece = "Defender" /\ target_piece = "King")
       THEN FALSE
       ELSE IF target_piece = "King" THEN is_king_surrounded(s, target)
       ELSE IF ~in_bounds(s, opposite_r, opposite_c) THEN FALSE
       ELSE IF (is_throne(s, opposite) /\ opposite_piece = "None") \/ is_corner(s, opposite)
            THEN TRUE
       ELSE IF opposite_piece # "None"
            THEN \/ (target_piece = "Attacker" /\ opposite_piece \in {"Defender", "King"})
                 \/ (target_piece = "Defender" /\ opposite_piece = "Attacker")
            ELSE FALSE

can_capture(s, attacker, target) ==
    LET attacker_piece == get_piece(s, attacker)
        target_piece == get_piece(s, target)
        dr == target.row - attacker.row
        dc == target.col - attacker.col
        opposite_r == target.row + dr
        opposite_c == target.col + dc
        opposite == Position(opposite_r, opposite_c)
        opposite_piece == get_piece(s, opposite)
    IN IF \/ (attacker_piece = "Attacker" /\ target_piece = "Attacker")
          \/ (attacker_piece = "Defender" /\ target_piece = "Defender")
          \/ (attacker_piece = "King" /\ target_piece = "Defender")
          \/ (attacker_piece = "Defender" /\ target_piece = "King")
       THEN FALSE
       ELSE IF target_piece = "King" THEN is_king_surrounded(s, target)
       ELSE IF ~in_bounds(s, opposite_r, opposite_c) THEN FALSE
       ELSE IF is_throne(s, opposite) \/ is_corner(s, opposite) THEN TRUE
       ELSE IF opposite_piece # "None"
            THEN \/ (target_piece = "Attacker" /\ opposite_piece \in {"Defender", "King"})
                 \/ (target_piece = "Defender" /\ opposite_piece = "Attacker")
            ELSE FALSE

(* the loop of check_captures from direction i on, the state threaded through *)
RECURSIVE check_captures_from(_, _, _)
check_captures_from(s, moved_to, i) ==
    IF i > 4 THEN s
    ELSE LET target_r == moved_to.row + directions[i][1]
             target_c == moved_to.col + directions[i][2]
             target == Position(target_r, target_c)
             target_piece == get_piece(s, target)
             s2 == IF in_bounds(s, target_r, target_c)
                      /\ target_piece # "None"
                      /\ can_capture(s, moved_to, target)
                   THEN [s EXCEPT !.board[target.row][target.col] = "None",
                                  !.king_position =
                                      IF target_piece = "King" THEN <<>> ELSE @]
                   ELSE s
         IN check_captures_from(s2, moved_to, i + 1)

(* the loop of check_captures left at the first capture *)
RECURSIVE check_captures_until(_, _, _)
check_captures_until(s, moved_to, i) ==
    IF i > 4 THEN s
    ELSE LET target_r == moved_to.row + directions[i][1]
             target_c == moved_to.col + directions[i][2]
             target == Position(target_r, target_c)
             target_piece == get_piece(s, target)
         IN IF in_bounds(s, target_r, target_c)
               /\ target_piece # "None"
               /\ can_capture(s, moved_to, target)
            THEN [s EXCEPT !.board[target.row][target.col] = "None",
                           !.king_position =
                               IF target_piece = "King" THEN <<>> ELSE @]
            ELSE check_captures_until(s, moved_to, i + 1)

check_captures_first_only(s, moved_to) == check_captures_until(s, moved_to, 1)

(* check_captures that also removes the moved piece, if it is not the King  *)
(* and stands between two hostile pieces when the loop is done             *)
check_captures_and_mover(s, moved_to) ==
    LET s2 == check_captures_from(s, moved_to, 1)
        mover == get_piece(s2, moved_to)
        foe(p) == IF mover = "Attacker" THEN p \in {"Defender", "King"}
                  ELSE p = "Attacker"
        flanked(i, j) ==
            /\ in_bounds(s2, moved_to.row + directions[i][1], moved_to.col + directions[i][2])
            /\ in_bounds(s2, moved_to.row + directions[j][1], moved_to.col + directions[j][2])
            /\ foe(s2.board[moved_to.row + directions[i][1]][moved_to.col + directions[i][2]])
            /\ foe(s2.board[moved_to.row + directions[j][1]][moved_to.col + directions[j][2]])
    IN IF mover # "King" /\ (flanked(1, 2) \/ flanked(3, 4))
       THEN [s2 EXCEPT !.board[moved_to.row][moved_to.col] = "None"]
       ELSE s2

(* check_captures that also removes a King that moved onto a square where  *)
(* is_king_surrounded holds                                                *)
check_captures_and_king(s, moved_to) ==
    LET s2 == check_captures_from(s, moved_to, 1)
    IN IF get_piece(s2, moved_to) = "King" /\ is_king_surrounded(s2, moved_to)
       THEN [s2 EXCEPT !.board[moved_to.row][moved_to.col] = "None",
                       !.king_position = <<>>]
       ELSE s2

check_captures(s, moved_to) == check_captures_from(s, moved_to, 1)

-----------------------------------------------------------------------------
(* Win evaluator                                                           *)

(* check_game_end without the corner test *)
check_game_end_no_corner(s) ==
    IF s.king_position # <<>> THEN s ELSE [s EXCEPT !.result = "AttackersWin"]

(* check_game_end that gives the game to the Attackers as soon as the King  *)
(* stands surrounded, whoever moved                                        *)
check_game_end_surrounded(s) ==
    IF s.king_position # <<>>
    THEN IF is_corner(s, s.king_position[1])
         THEN [s EXCEPT !.result = "DefendersWin"]
         ELSE IF is_king_surrounded(s, s.king_position[1])
              THEN [s EXCEPT !.result = "AttackersWin"]
              ELSE s
    ELSE [s EXCEPT !.result = "AttackersWin"]

(* check_game_end that declares a draw when the side to move next has no   *)
(* legal move                                                              *)
check_game_end_draw(s) ==
    IF s.king_position # <<>>
    THEN IF is_corner(s, s.king_position[1])
         THEN [s EXCEPT !.result = "DefendersWin"]
         ELSE IF legal_moves([s EXCEPT !.current_player = opponent(s.current_player)]) = <<>>
              THEN [s EXCEPT !.result = "Draw"]
              ELSE s
    ELSE [s EXCEPT !.result = "AttackersWin"]

check_game_end(s) ==
    IF s.king_position # <<>>
    THEN IF is_corner(s, s.king_position[1])
         THEN [s EXCEPT !.result = "DefendersWin"]
         ELSE s
    ELSE [s EXCEPT !.result = "AttackersWin"]

-----------------------------------------------------------------------------
(* make_move: the new state and the returned value                         *)

(* relocate without the update of king_position *)
relocate_stale_king(s, mv) ==
    LET piece == s.board[mv.from.row][mv.from.col]
        b1 == [s.board EXCEPT ![mv.from.row][mv.from.col] = "None"]
        b2 == [b1 EXCEPT ![mv.to.row][mv.to.col] = piece]
    IN [s EXCEPT !.board = b2]

(* lines 383-391: the piece is lifted from mv.from and put on mv.to *)
relocate(s, mv) ==
    LET piece == s.board[mv.from.row][mv.from.col]
        b1 == [s.board EXCEPT ![mv.from.row][mv.from.col] = "None"]
        b2 == [b1 EXCEPT ![mv.to.row][mv.to.col] = piece]
    IN [s EXCEPT !.board = b2,
                 !.king_position = IF piece = "King" THEN <<mv.to>> ELSE @]

(* switch_player skipped once the game is decided *)
switch_player_unless_over(s) ==
    IF s.result # "None" THEN s
    ELSE [s EXCEPT !.current_player = opponent(s.current_player),
                   !.move_count = s.move_count + 1]

switch_player(s) ==
    [s EXCEPT !.current_player = opponent(s.current_player),
              !.move_count = s.move_count + 1]

(* lines 383-403: the accepted move *)
apply_move(s, mv) ==
    switch_player(check_game_end(check_captures(relocate(s, mv), mv.to)))

(* make_move without the early return of lines 374-376 *)
make_move_no_game_over(s, mv, is_legal) ==
    IF ~is_legal THEN [state |-> s, ret |-> "InvalidMove"]
    ELSE [state |-> apply_move(s, mv), ret |-> "Ok"]

(* make_move, with the outcome of legal_moves().contains(&mv) of line 379   *)
(* handed in as is_legal (read only when the game is not over)              *)
make_move_checked(s, mv, is_legal) ==
    IF is_game_over(s) THEN [state |-> s, ret |-> "GameOver"]
    ELSE IF ~is_legal THEN [state |-> s, ret |-> "InvalidMove"]
    ELSE [state |-> apply_move(s, mv), ret |-> "Ok"]

make_move(s, mv) == make_move_checked(s, mv, contains(legal_moves(s), mv))

-----------------------------------------------------------------------------
(* GreedyBotPlugin (src/plugins/greedy_bot_plugin/src/lib.rs)              *)

(* the positions the loops `for row in 0..board_size` and `for col in       *)
(* 0..board_size` visit, for either edge length                             *)
CopenhagenCells ==
    {Position(r, c) : r \in 0 .. (COPENHAGEN_SIZE - 1), c \in 0 .. (COPENHAGEN_SIZE - 1)}

BrandubhCells ==
    {Position(r, c) : r \in 0 .. (BRANDUBH_SIZE - 1), c \in 0 .. (BRANDUBH_SIZE - 1)}

(* the cells of the counting loop of evaluate_move where get_piece(pos) is  *)
(* Some(_)                                                                  *)
occupied(s) ==
    {pos \in (IF s.board_size = COPENHAGEN_SIZE THEN CopenhagenCells ELSE BrandubhCells) :
        get_piece(s, pos) # "None"}

(* the arm of the match for piece p, taken once for each cell that holds p *)
count_pieces(s, cells, p) == Cardinality({pos \in cells : get_piece(s, pos) = p})

(* evaluate_move without the 1000 / -1000 of a captured King *)
evaluate_move_no_king_bonus(s, mv, is_legal) ==
    LET temp_state == make_move_checked(s, mv, is_legal).state
        cells == occupied(temp_state)
        attacker_count == count_pieces(temp_state, cells, "Attacker")
        defender_count == count_pieces(temp_state, cells, "Defender")
    IN IF s.current_player = "Attackers"
       THEN attacker_count - defender_count * 2
       ELSE defender_count * 2 - attacker_count

(* evaluate_move, with the outcome of legal_moves().contains(&mv) inside    *)
(* make_move handed in as is_legal                                          *)
evaluate_move_checked(s, mv, is_legal) ==
    LET temp_state == make_move_checked(s, mv, is_legal).state
        cells == occupied(temp_state)
        attacker_count == count_pieces(temp_state, cells, "Attacker")
        defender_count == count_pieces(temp_state, cells, "Defender")
        king_alive == \E pos \in cells : get_piece(temp_state, pos) = "King"
    IN IF s.current_player = "Attackers"
       THEN IF ~king_alive THEN 1000
            ELSE attacker_count - defender_count * 2
       ELSE IF ~king_alive THEN -1000
            ELSE defender_count * 2 - attacker_count

evaluate_move(s, mv) == evaluate_move_checked(s, mv, contains(legal_moves(s), mv))

(* Iterator::max_by_key with the key evaluate_move: keys pairs each index   *)
(* of moves with the key of its element, and the element returned is the    *)
(* last one whose key is maximal.  Every element comes from                 *)
(* legal_moves(s), so make_move inside evaluate_move finds it legal.        *)
max_by_key(s, moves) ==
    LET keys == {<<i, evaluate_move_checked(s, moves[i], TRUE)>> : i \in 1 .. Len(moves)}
        last_max == CHOOSE p \in keys :
                        \A q \in keys : q[2] < p[2] \/ (q[2] = p[2] /\ q[1] <= p[1])
    IN moves[last_max[1]]

(* get_move: None for an empty list, else the move max_by_key keeps *)
get_move(s) ==
    LET moves == legal_moves(s)
    IN IF moves = <<>> THEN <<>> ELSE <<max_by_key(s, moves)>>

-----------------------------------------------------------------------------
(* The state machine                                                       *)

Self == [board |-> board, variant |-> variant, board_size |-> board_size,
         current_player |-> current_player, king_position |-> king_position,
         move_count |-> move_count, result |-> result]

(* The callers.  A game opens with one of the recorded openings of Book     *)
(* (each a sequence of moves <<from.row, from.col, to.row, to.col>> played  *)
(* from new(variant)) and goes on with at most MaxFree moves chosen freely; *)
(* line is the opening being played.  ret is the value the last make_move   *)
(* returned ("None" before the first call), lastMv the last move that was  *)
(* accepted and captured the cells that move cleared besides its origin.    *)
(* botRet is <<>> until the bot is asked for a move in the current state,   *)
(* then <<r>> with r the Option<Move> that get_move returned.               *)
MaxFree == 1

Book ==
   << [variant |-> "Brandubh",
       moves |-> <<  >>],
      [variant |-> "Brandubh",
       moves |-> << <<3, 5, 0, 5>>, <<4, 3, 4, 5>> >>],
      [variant |-> "Brandubh",
       moves |-> << <<1, 3, 1, 1>>, <<3, 2, 1, 2>> >>],
      [variant |-> "Brandubh",
       moves |-> << <<3, 0, 1, 0>> >>],
      [variant |-> "Brandubh",
       moves |-> << <<3, 6, 5, 6>>, <<3, 2, 5, 2>>, <<0, 3, 0, 2>>, <<5, 2, 5, 0>> >>],
      [variant |-> "Brandubh",
       moves |-> << <<1, 3, 1, 2>>, <<3, 2, 2, 2>>, <<5, 3, 5, 2>>, <<3, 3, 3, 2>> >>],
      [variant |-> "Brandubh",
       moves |-> << <<3, 6, 2, 6>>, <<3, 4, 1, 4>>, <<2, 6, 2, 4>> >>],
      [variant |-> "Brandubh",
       moves |-> << <<5, 3, 5, 4>>, <<4, 3, 4, 5>>, <<6, 3, 6, 4>>, <<3, 3, 5, 3>>,
                    <<3, 5, 2, 5>> >>],
      [variant |-> "Brandubh",
       moves |-> << <<5, 3, 5, 1>>, <<4, 3, 4, 1>>, <<6, 3, 5, 3>> >>],
      [variant |-> "Brandubh",
       moves |-> << <<5, 3, 5, 4>>, <<3, 4, 0, 4>> >>],
      [variant |-> "Brandubh",
       moves |-> << <<3, 1, 6, 1>>, <<2, 3, 2, 0>>, <<6, 1, 2, 1>>, <<3, 3, 2, 3>> >>],
      [variant |-> "Brandubh",
       moves |-> << <<5, 3, 5, 4>>, <<4, 3, 5, 3>>, <<6, 3, 6, 1>>, <<3, 3, 4, 3>>,
                    <<3, 0, 1, 0>>, <<4, 3, 4, 6>>, <<3, 5, 4, 5>>, <<3, 2, 4, 2>> >>],
      [variant |-> "Brandubh",
       moves |-> << <<1, 3, 1, 4>>, <<2, 3, 2, 6>>, <<3, 0, 2, 0>>, <<3, 4, 5, 4>>,
                    <<3, 6, 4, 6>>, <<3, 2, 4, 2>>, <<3, 5, 6, 5>>, <<3, 3, 3, 4>>,
                    <<4, 6, 3, 6>>, <<3, 4, 2, 4>>, <<2, 0, 2, 3>>, <<4, 3, 4, 4>>,
                    <<3, 6, 3, 4>>, <<2, 6, 4, 6>> >>],
      [variant |-> "Brandubh",
       moves |-> << <<1, 3, 1, 1>>, <<3, 4, 6, 4>>, <<3, 0, 5, 0>>, <<3, 3, 3, 4>>,
                    <<1, 1, 1, 4>>, <<2, 3, 1, 3>>, <<5, 3, 5, 4>>, <<4, 3, 4, 0>>,
                    <<5, 4, 4, 4>>, <<3, 2, 0, 2>> >>],
      [variant |-> "Brandubh",
       moves |-> << <<3, 1, 6, 1>>, <<3, 2, 6, 2>>, <<3, 0, 1, 0>>, <<3, 3, 3, 0>>,
                    <<1, 3, 1, 1>>, <<2, 3, 1, 3>>, <<0, 3, 0, 4>> >>],
      [variant |-> "Brandubh",
       moves |-> << <<1, 3, 1, 6>>, <<3, 4, 1, 4>>, <<0, 3, 0, 4>>, <<2, 3, 0, 3>>,
                    <<6, 3, 6, 5>>, <<1, 4, 1, 5>>, <<6, 5, 6, 4>>, <<3, 2, 0, 2>>,
                    <<0, 4, 2, 4>>, <<0, 2, 6, 2>>, <<6, 4, 4, 4>> >>],
      [variant |-> "Brandubh",
       moves |-> << <<3, 5, 1, 5>>, <<2, 3, 2, 5>>, <<5, 3, 5, 5>>, <<4, 3, 4, 5>> >>],
      [variant |-> "Brandubh",
       moves |-> << <<3, 5, 1, 5>> >>],
      [variant |-> "Brandubh",
       moves |-> << <<3, 5, 6, 5>>, <<3, 4, 6, 4>>, <<3, 1, 6, 1>>, <<3, 2, 6, 2>>,
                    <<5, 3, 5, 6>>, <<4, 3, 4, 6>>, <<1, 3, 1, 6>>, <<2, 3, 2, 6>>,
                    <<3, 0, 5, 0>>, <<4, 6, 4, 0>>, <<0, 3, 0, 5>>, <<6, 4, 0, 4>> >>],
      [variant |-> "Copenhagen",
       moves |-> << <<6, 0, 6, 4>>, <<7, 5, 7, 3>>, <<6, 10, 6, 6>>, <<5, 5, 6, 5>>,
                    <<4, 0, 4, 4>>, <<7, 3, 7, 8>> >>],
      [variant |-> "Copenhagen",
       moves |-> << <<3, 10, 1, 10>>, <<3, 5, 3, 10>>, <<4, 10, 4, 8>>, <<5, 4, 8, 4>>,
                    <<1, 5, 3, 5>> >>],
      [variant |-> "Copenhagen",
       moves |-> << <<0, 3, 0, 2>>, <<5, 6, 9, 6>>, <<0, 2, 0, 1>>, <<5, 5, 5, 6>>,
                    <<0, 1, 0, 2>>, <<5, 6, 2, 6>>, <<0, 2, 0, 1>>, <<2, 6, 2, 10>>,
                    <<0, 1, 0, 2>> >>] >>

BookMove(q) == Move(Position(q[1], q[2]), Position(q[3], q[4]))

BookLen == Len(Book[line].moves)

(* the moves a caller submits: every pair of positions of the board and of  *)
(* one row and one column beyond it that lie on a common row or column, or  *)
(* one diagonal step apart                                                  *)
MoveInputs(n) ==
    {Move(Position(q[1], q[2]), Position(q[3], q[4])) :
        q \in {q \in (0 .. n) \X (0 .. n) \X (0 .. n) \X (0 .. n) :
                \/ q[1] = q[3]
                \/ q[2] = q[4]
                \/ (q[1] - q[3] \in {-1, 1} /\ q[2] - q[4] \in {-1, 1})}}

CopenhagenInputs == MoveInputs(COPENHAGEN_SIZE)

BrandubhInputs == MoveInputs(BRANDUBH_SIZE)

Inputs == IF variant = "Copenhagen" THEN CopenhagenInputs ELSE BrandubhInputs

Init ==
    \E l \in 1 .. Len(Book) :
        \E s \in {new(Book[l].variant)} :
            /\ board = s.board
            /\ variant = s.variant
            /\ board_size = s.board_size
            /\ current_player = s.current_player
            /\ king_position = s.king_position
            /\ move_count = s.move_count
            /\ result = s.result
            /\ ret = "None"
            /\ lastMv = <<>>
            /\ captured = {}
            /\ line = l
            /\ botRet = <<>>

(* the cells other than mv.from that hold a piece in s and none in s2 *)
Cleared(s, s2, mv) ==
    {pos \in {Position(r, c) : r \in Idx, c \in Idx} :
        /\ pos # mv.from
        /\ s.board[pos.row][pos.col] # "None"
        /\ s2.board[pos.row][pos.col] = "None"}

(* the canonical state takes the outcome r of make_move(Self, mv) *)
Store(r, mv) ==
    /\ board' = r.state.board
    /\ variant' = r.state.variant
    /\ board_size' = r.state.board_size
    /\ current_player' = r.state.current_player
    /\ king_position' = r.state.king_position
    /\ move_count' = r.state.move_count
    /\ result' = r.state.result
    /\ ret' = r.ret
    /\ lastMv' = IF r.ret = "Ok" THEN <<mv>> ELSE lastMv
    /\ captured' = IF r.ret = "Ok" THEN Cleared(Self, r.state, mv) ELSE captured
    /\ line' = line
    /\ botRet' = <<>>

(* make_move with the next move of the opening *)
PlayBook ==
    /\ move_count < BookLen
    /\ result = "None"
    /\ \E r \in {make_move(Self, BookMove(Book[line].moves[move_count + 1]))} :
          Store(r, BookMove(Book[line].moves[move_count + 1]))

(* make_move with any move; legal_moves() of line 379 depends on the state *)
(* alone and is evaluated once for all the moves submitted                 *)
MakeMove ==
    /\ \/ (BookLen <= move_count /\ move_count < BookLen + MaxFree)
       \/ result # "None"
    /\ \E legal \in {Range(legal_moves(Self))} :
          \E mv \in Inputs :
             \E r \in {make_move_checked(Self, mv, mv \in legal)} :
                Store(r, mv)

Next == PlayBook \/ MakeMove

Spec == Init /\ [][Next]_vars

(* the caller asks the bot for a move where it is about to call make_move;  *)
(* get_move takes &GameState, so the canonical state is not its to change   *)
GetMove ==
    /\ botRet = <<>>
    /\ (move_count < BookLen + MaxFree \/ result # "None")
    /\ \E r \in {get_move(Self)} : botRet' = <<r>>
    /\ UNCHANGED <<state_vars, ret, lastMv, captured, line>>

BotNext == PlayBook \/ MakeMove \/ GetMove

BotSpec == Init /\ [][BotNext]_vars

-----------------------------------------------------------------------------
(* Properties.  The geometry and the rules are restated here from the      *)
(* board alone, without the operators of the engine.                       *)

Cells == {Position(r, c) : r \in Idx, c \in Idx}

ActiveCells == {pos \in Cells : pos.row < board_size /\ pos.col < board_size}

At(pos) == board[pos.row][pos.col]

KingCells == {pos \in Cells : At(pos) = "King"}

Throne == Position(board_size \div 2, board_size \div 2)

Corners == {Position(r, c) : r \in {0, board_size - 1}, c \in {0, board_size - 1}}

Count(p) == Cardinality({pos \in Cells : At(pos) = p})

(* C1: terminal is absorbing: from a state where result is set, every     *)
(* make_move call returns GameOver and leaves the grid, the side to move,  *)
(* the King position, the move counter and result as they were.           *)
C1_TerminalAbsorbing ==
    [][result # "None" => (ret' = "GameOver" /\ UNCHANGED state_vars)]_vars

C1_Witness == result # "None" /\ ret = "GameOver"

(* C3: an accepted make_move flips the side to move and adds one to the   *)
(* move counter, also when it sets result; a rejected one (GameOver or    *)
(* InvalidMove) changes neither.                                          *)
C3_AlternateAndCount ==
    [][/\ ret' \in {"Ok", "GameOver", "InvalidMove"}
       /\ ret' = "Ok" =>
             /\ current_player' = opponent(current_player)
             /\ current_player' # current_player
             /\ move_count' = move_count + 1
       /\ ret' \in {"GameOver", "InvalidMove"} =>
             UNCHANGED <<current_player, move_count>>]_vars

C3_Witness ==
    /\ ret = "Ok"
    /\ result = "AttackersWin"
    /\ current_player = "Defenders"
    /\ move_count = BookLen + 1

(* C4: at most one cell of the grid holds a King, and king_position is    *)
(* Some(p) exactly when cell p holds the King and None exactly when no    *)
(* cell does.                                                             *)
C4_KingCacheAgrees ==
    /\ Cardinality(KingCells) <= 1
    /\ king_position = <<>> <=> KingCells = {}
    /\ king_position # <<>> => KingCells = {king_position[1]}

C4_Witness ==
    /\ lastMv # <<>>
    /\ king_position = <<lastMv[1].to>>
    /\ At(lastMv[1].to) = "King"
    /\ captured # {}

(* C5: the throne and the four corners of the active board are empty or   *)
(* hold the King; no Attacker and no Defender stands on them.             *)
C5_RestrictedSquares ==
    \A pos \in Corners \cup {Throne} : At(pos) \in {"None", "King"}

(* an accepted move of an Attacker or Defender that stopped right in front *)
(* of an empty throne or corner lying next on its way                      *)
C5_Witness ==
    /\ lastMv # <<>>
    /\ ret = "Ok"
    /\ At(lastMv[1].to) \in {"Attacker", "Defender"}
    /\ LET f == lastMv[1].from
           t == lastMv[1].to
           nxt == Position(t.row + (IF t.row > f.row THEN 1 ELSE IF t.row < f.row THEN -1 ELSE 0),
                           t.col + (IF t.col > f.col THEN 1 ELSE IF t.col < f.col THEN -1 ELSE 0))
       IN nxt \in Corners \cup {Throne} /\ At(nxt) = "None"

(* C8: result is AttackersWin exactly when no King is on the board (the   *)
(* King position is then none), DefendersWin exactly when the King stands  *)
(* on a corner, and unset otherwise; so after every accepted move result   *)
(* is AttackersWin if the King was captured, else DefendersWin if the      *)
(* King is on a corner, else unset.                                        *)
C8_WinEvaluation ==
    /\ result = (IF KingCells = {} THEN "AttackersWin"
                 ELSE IF KingCells \cap Corners # {} THEN "DefendersWin"
                 ELSE "None")
    /\ result = "AttackersWin" <=> king_position = <<>>

C8_Witness ==
    /\ result = "DefendersWin"
    /\ ret = "Ok"
    /\ lastMv # <<>>
    /\ lastMv[1].to \in Corners
    /\ At(lastMv[1].to) = "King"

(* C10: new(variant) yields Attackers to move, move counter 0, no result, *)
(* one King on the centre cell ((5,5) of 11x11, (3,3) of 7x7) with the    *)
(* King position set to it, Defenders in a cross around it (8 resp. 4),   *)
(* Attackers mirrored across both axes (24 resp. 8), all other cells      *)
(* empty.  The state with move counter 0 is the one new(variant) made.    *)
C10_InitialState ==
    move_count = 0 =>
        LET n == IF variant = "Copenhagen" THEN 11 ELSE 7
            c == IF variant = "Copenhagen" THEN 5 ELSE 3
            arm == IF variant = "Copenhagen" THEN 2 ELSE 1
            cross == {pos \in Cells :
                        \/ (pos.row = c /\ pos.col # c
                               /\ pos.col >= c - arm /\ pos.col <= c + arm)
                        \/ (pos.col = c /\ pos.row # c
                               /\ pos.row >= c - arm /\ pos.row <= c + arm)}
        IN /\ board_size = n
           /\ current_player = "Attackers"
           /\ result = "None"
           /\ KingCells = {Position(c, c)}
           /\ king_position = <<Position(c, c)>>
           /\ {pos \in Cells : At(pos) = "Defender"} = cross
           /\ Count("Defender") = (IF variant = "Copenhagen" THEN 8 ELSE 4)
           /\ Count("Attacker") = (IF variant = "Copenhagen" THEN 24 ELSE 8)
           /\ \A pos \in Cells :
                 At(pos) = "Attacker" =>
                    /\ pos.row < n /\ pos.col < n
                    /\ At(Position(n - 1 - pos.row, pos.col)) = "Attacker"
                    /\ At(Position(pos.row, n - 1 - pos.col)) = "Attacker"
           /\ Count("None") = MAX_BOARD_SIZE * MAX_BOARD_SIZE
                               - 1 - Count("Defender") - Count("Attacker")

C10_Witness ==
    /\ move_count = 0
    /\ ret = "None"
    /\ variant = "Brandubh"
    /\ At(Position(3, 3)) = "King"
    /\ Count("Attacker") = 8

(* the rules of movement, on the board of the current state *)
Owned(pos) ==
    \/ (current_player = "Attackers" /\ At(pos) = "Attacker")
    \/ (current_player = "Defenders" /\ At(pos) \in {"Defender", "King"})

OnBoard(pos) ==
    pos.row >= 0 /\ pos.row < board_size /\ pos.col >= 0 /\ pos.col < board_size

(* the cells from the one next to f up to and including t, for f and t on *)
(* a common row or column                                                  *)
Path(f, t) ==
    IF f.row = t.row
    THEN {Position(f.row, c) :
             c \in (IF f.col < t.col THEN (f.col + 1) .. t.col ELSE t.col .. (f.col - 1))}
    ELSE IF f.col = t.col
    THEN {Position(r, f.col) :
             r \in (IF f.row < t.row THEN (f.row + 1) .. t.row ELSE t.row .. (f.row - 1))}
    ELSE {}

OutOfBoard(mv) == ~OnBoard(mv.from) \/ ~OnBoard(mv.to)

EmptyOrigin(mv) == OnBoard(mv.from) /\ At(mv.from) = "None"

NotOwned(mv) == OnBoard(mv.from) /\ At(mv.from) # "None" /\ ~Owned(mv.from)

DestOccupied(mv) == OnBoard(mv.to) /\ At(mv.to) # "None"

OffRay(mv) ==
    \/ mv.from = mv.to
    \/ (mv.from.row # mv.to.row /\ mv.from.col # mv.to.col)
    \/ (OnBoard(mv.from) /\ OnBoard(mv.to)
          /\ \E pos \in Path(mv.from, mv.to) : pos # mv.to /\ At(pos) # "None")

RestrictedEntry(mv) ==
    /\ OnBoard(mv.from)
    /\ At(mv.from) \in {"Attacker", "Defender"}
    /\ mv.to \in Corners \cup {Throne}

IllegalShape(mv) ==
    \/ OutOfBoard(mv)
    \/ EmptyOrigin(mv)
    \/ NotOwned(mv)
    \/ DestOccupied(mv)
    \/ OffRay(mv)
    \/ RestrictedEntry(mv)

(* C2: in a non-terminal state make_move returns Ok or InvalidMove; a     *)
(* call that returns InvalidMove leaves the whole state unchanged; and a   *)
(* move is accepted only if it is a member of legal_moves() and has none   *)
(* of the shapes: a position outside the board, an empty origin, an origin *)
(* piece of the side not to move, an occupied destination, a destination   *)
(* off the sliding ray, a non-King piece entering the throne or a corner.  *)
(* MakeMove submits every move of Inputs in every non-terminal state it    *)
(* acts on, so every such move that is not accepted got InvalidMove.       *)
C2_IllegalRejected ==
    [][result = "None" =>
          /\ ret' \in {"Ok", "InvalidMove"}
          /\ ret' = "InvalidMove" => UNCHANGED <<state_vars, lastMv, captured>>
          /\ ret' = "Ok" =>
                /\ lastMv' # <<>>
                /\ ~IllegalShape(lastMv'[1])
                /\ contains(legal_moves(Self), lastMv'[1])]_vars

(* a rejected call in a state where Inputs holds moves of every shape *)
C2_Witness ==
    /\ result = "None"
    /\ ret = "InvalidMove"
    /\ move_count > 0
    /\ \E mv \in Inputs : OutOfBoard(mv)
    /\ \E mv \in Inputs : EmptyOrigin(mv) /\ ~OffRay(mv) /\ ~OutOfBoard(mv)
    /\ \E mv \in Inputs : NotOwned(mv) /\ ~OffRay(mv) /\ ~DestOccupied(mv)
                              /\ ~OutOfBoard(mv) /\ ~RestrictedEntry(mv)
    /\ \E mv \in Inputs : DestOccupied(mv) /\ Owned(mv.from) /\ ~OffRay(mv)
    /\ \E mv \in Inputs : OffRay(mv) /\ Owned(mv.from) /\ ~DestOccupied(mv)
                              /\ ~OutOfBoard(mv)
    /\ \E mv \in Inputs : RestrictedEntry(mv) /\ Owned(mv.from) /\ ~OffRay(mv)
                              /\ ~DestOccupied(mv)

(* the board right after the piece of mv is relocated, before captures *)
Moved(mv) ==
    [r \in Idx |-> [c \in Idx |->
        IF r = mv.from.row /\ c = mv.from.col THEN "None"
        ELSE IF r = mv.to.row /\ c = mv.to.col THEN At(mv.from)
        ELSE board[r][c]]]

Step(pos, i) == Position(pos.row + directions[i][1], pos.col + directions[i][2])

(* C6: a move removes the King only if each of the four orthogonal        *)
(* neighbours of the King's square is an Attacker, the throne or a corner  *)
(* when the captures are resolved.                                         *)
C6_KingNeedsFourHostile ==
    [][(king_position # <<>> /\ king_position' = <<>>) =>
          \A i \in 1 .. 4 :
             LET nb == Step(king_position[1], i)
             IN /\ OnBoard(nb)
                /\ \/ Moved(lastMv'[1])[nb.row][nb.col] = "Attacker"
                   \/ nb = Throne
                   \/ nb \in Corners]_vars

Side(p) == IF p = "Attacker" THEN "Attackers" ELSE "Defenders"

Hostile(op, tp) ==
    \/ (tp = "Defender" /\ op = "Attacker")
    \/ (tp = "Attacker" /\ op \in {"Defender", "King"})

(* C7: after an accepted move to t, a neighbour n of t holding a non-King *)
(* piece of the side opposing the mover is cleared if and only if the cell *)
(* o one step beyond n is on the board and is the throne or a corner       *)
(* (whatever it holds) or holds a piece hostile to the piece on n.         *)
C7_SandwichCapture ==
    [][ret' = "Ok" =>
          LET mv == lastMv'[1]
              M == Moved(mv)
              mover == M[mv.to.row][mv.to.col]
          IN \A i \in 1 .. 4 :
                LET n == Step(mv.to, i)
                    o == Step(n, i)
                IN (/\ OnBoard(n)
                    /\ M[n.row][n.col] \in {"Attacker", "Defender"}
                    /\ Side(M[n.row][n.col]) # Side(mover))
                   => (board'[n.row][n.col] = "None"
                        <=> /\ OnBoard(o)
                            /\ \/ o = Throne
                               \/ o \in Corners
                               \/ Hostile(M[o.row][o.col], M[n.row][n.col]))]_vars

(* a piece captured against an empty throne or an empty corner *)
C7_Witness ==
    /\ ret = "Ok"
    /\ lastMv # <<>>
    /\ \E pos \in captured :
          LET t == lastMv[1].to
              o == Position(2 * pos.row - t.row, 2 * pos.col - t.col)
          IN OnBoard(o) /\ o \in Corners \cup {Throne} /\ At(o) = "None"

(* C9: every move of legal_moves() starts on a cell holding a piece of    *)
(* the side to move, ends on another cell of the same row or column, and   *)
(* the destination and all cells between are empty.                        *)
C9_LegalMovesSound ==
    \A moves \in {legal_moves(Self)} :
       \A i \in 1 .. Len(moves) :
          LET f == moves[i].from
              t == moves[i].to
          IN /\ OnBoard(f) /\ OnBoard(t)
             /\ Owned(f)
             /\ t # f
             /\ (t.row = f.row \/ t.col = f.col)
             /\ t \in Path(f, t)
             /\ \A pos \in Path(f, t) : At(pos) = "None"

(* some move of legal_moves() ends right in front of a piece *)
C9_Witness ==
    /\ ret = "Ok"
    /\ \E moves \in {legal_moves(Self)} :
          \E i \in 1 .. Len(moves), k \in 1 .. 4 :
             LET f == moves[i].from
                 t == moves[i].to
                 nxt == Step(t, k)
             IN /\ Step(f, k) # t
                /\ nxt \notin Path(f, t) /\ nxt # f /\ OnBoard(nxt)
                /\ (nxt.row = f.row \/ nxt.col = f.col)
                /\ At(nxt) # "None"

(* the sort key of a move in legal_moves(): origin row, origin column,     *)
(* direction (right 1, left 2, down 3, up 4), distance from the origin     *)
DirRank(mv) ==
    IF mv.to.row = mv.from.row
    THEN (IF mv.to.col > mv.from.col THEN 1 ELSE 2)
    ELSE (IF mv.to.row > mv.from.row THEN 3 ELSE 4)

Dist(mv) ==
    (IF mv.to.row > mv.from.row THEN mv.to.row - mv.from.row ELSE mv.from.row - mv.to.row)
    + (IF mv.to.col > mv.from.col THEN mv.to.col - mv.from.col ELSE mv.from.col - mv.to.col)

Key(mv) == <<mv.from.row, mv.from.col, DirRank(mv), Dist(mv)>>

KeyLess(a, b) ==
    \E k \in 1 .. 4 : a[k] < b[k] /\ \A j \in 1 .. (k - 1) : a[j] = b[j]

(* C11: legal_moves() is a function of the state alone: it takes &self,   *)
(* evaluating it primes no variable, and its sequence is strictly          *)
(* increasing in the key origin row, origin column, direction (right,      *)
(* left, down, up), distance from the origin; a strictly increasing        *)
(* sequence is fixed by the set of its moves, so equal states yield equal  *)
(* sequences.                                                              *)
C11_LegalMovesOrdered ==
    \A moves \in {legal_moves(Self)} :
       \A i \in 1 .. (Len(moves) - 1) : KeyLess(Key(moves[i]), Key(moves[i + 1]))

(* after an accepted move, some piece of the side to move has moves in all *)
(* four directions, in one of them over two cells or more                  *)
C11_Witness ==
    /\ ret = "Ok"
    /\ \E moves \in {legal_moves(Self)} :
          \E i \in 1 .. Len(moves) :
             /\ \A d \in 1 .. 4 :
                   \E j \in 1 .. Len(moves) :
                      moves[j].from = moves[i].from /\ DirRank(moves[j]) = d
             /\ \E j \in 1 .. Len(moves) :
                   moves[j].from = moves[i].from /\ Dist(moves[j]) >= 2

(* C12: legal_moves() is empty in every state where result is set.        *)
C12_NoMovesWhenOver ==
    result # "None" => legal_moves(Self) = <<>>

(* a decided game in which the side to move still has a piece that could   *)
(* slide                                                                   *)
C12_Witness ==
    /\ result # "None"
    /\ \E f \in ActiveCells, k \in 1 .. 4 :
          /\ Owned(f)
          /\ OnBoard(Step(f, k))
          /\ At(Step(f, k)) = "None"
          /\ Step(f, k) \notin Corners \cup {Throne}

(* C13: no cell outside the active board holds a piece, and the last      *)
(* accepted move has its origin and its destination on the active board.   *)
C13_WithinActiveBoard ==
    /\ \A pos \in Cells \ ActiveCells : At(pos) = "None"
    /\ lastMv # <<>> => (OnBoard(lastMv[1].from) /\ OnBoard(lastMv[1].to))

(* a Brandubh piece that slid to the last row or column of the 7x7 board   *)
C13_Witness ==
    /\ variant = "Brandubh"
    /\ ret = "Ok"
    /\ lastMv # <<>>
    /\ \/ (lastMv[1].to.col = BRANDUBH_SIZE - 1 /\ lastMv[1].from.col < lastMv[1].to.col)
       \/ (lastMv[1].to.row = BRANDUBH_SIZE - 1 /\ lastMv[1].from.row < lastMv[1].to.row)
    /\ At(lastMv[1].to) # "None"

(* the side to move has no piece that can slide a single cell *)
NoLegalMove ==
    \A f \in ActiveCells :
       Owned(f) =>
          \A k \in 1 .. 4 :
             ~(/\ OnBoard(Step(f, k))
               /\ At(Step(f, k)) = "None"
               /\ (At(f) = "King" \/ Step(f, k) \notin Corners \cup {Throne}))

Line(f) ==
    ({Position(f.row, c) : c \in 0 .. (board_size - 1)}
        \cup {Position(r, f.col) : r \in 0 .. (board_size - 1)}) \ {f}

(* the cells of Path(f, t) are empty *)
Clear(f, t) == \A pos \in Path(f, t) : At(pos) = "None"

(* the moves the rules allow to the side to move *)
Allowed ==
    UNION {{Move(f, t) :
               t \in {t \in Line(f) :
                        /\ Clear(f, t)
                        /\ At(f) # "King" =>
                              Path(f, t) \cap (Corners \cup {Throne}) = {}}} :
           f \in {f \in ActiveCells : Owned(f)}}

(* C15: while result is unset, the moves of legal_moves() are exactly the *)
(* moves from a piece of the side to move along its row or column over     *)
(* empty cells only, none of them the throne or a corner unless the piece  *)
(* is the King.  At the Brandubh start the Attacker of (0,3) may go to     *)
(* (0,2) and (0,1) and not to the corner (0,0).                            *)
C15_LegalMovesComplete ==
    [](\A legal \in {Range(legal_moves(Self))} :
          /\ result = "None" => legal = Allowed
          /\ (variant = "Brandubh" /\ move_count = 0) =>
                /\ Move(Position(0, 3), Position(0, 2)) \in legal
                /\ Move(Position(0, 3), Position(0, 1)) \in legal
                /\ Move(Position(0, 3), Position(0, 0)) \notin legal)

(* Defenders to move: a Defender has free cells up to the empty throne and *)
(* beyond it, and the King has a free way across the throne or into a      *)
(* corner                                                                  *)
C15_Witness ==
    /\ ret = "Ok"
    /\ result = "None"
    /\ current_player = "Defenders"
    /\ \E f \in ActiveCells :
          /\ At(f) = "Defender"
          /\ \E t \in Line(f) : Clear(f, t) /\ Throne \in Path(f, t) /\ t # Throne
    /\ \E f \in KingCells :
          \E t \in Line(f) :
             Clear(f, t) /\ (t \in Corners \/ (Throne \in Path(f, t) /\ t # Throne))

Neighbours(pos) == {Step(pos, i) : i \in 1 .. 4}

(* C16: an accepted move from f to t empties f and puts the moved piece   *)
(* on t; an orthogonal neighbour of t other than f keeps its content or    *)
(* goes from occupied to empty; every other cell is unchanged.             *)
C16_MoveFrame ==
    [][ret' = "Ok" =>
          LET f == lastMv'[1].from
              t == lastMv'[1].to
          IN /\ At(f) # "None"
             /\ board'[f.row][f.col] = "None"
             /\ board'[t.row][t.col] = At(f)
             /\ \A pos \in Cells \ {f, t} :
                   IF pos \in Neighbours(t)
                   THEN board'[pos.row][pos.col] \in {At(pos), "None"}
                   ELSE board'[pos.row][pos.col] = At(pos)]_vars

(* the moved piece, not the King, stands between two hostile pieces on     *)
(* opposite sides, both still on the board                                 *)
C16_Witness ==
    /\ ret = "Ok"
    /\ lastMv # <<>>
    /\ At(lastMv[1].to) \in {"Attacker", "Defender"}
    /\ \E i \in {1, 3} :
          LET a == Step(lastMv[1].to, i)
              b == Step(lastMv[1].to, i + 1)
          IN /\ OnBoard(a) /\ OnBoard(b)
             /\ Hostile(At(a), At(lastMv[1].to))
             /\ Hostile(At(b), At(lastMv[1].to))

(* the cells other than the origin of mv that hold a piece now and none    *)
(* in the next state                                                       *)
Removed(mv) ==
    {pos \in ActiveCells \ {mv.from} :
        At(pos) # "None" /\ board'[pos.row][pos.col] = "None"}

(* C17: every piece an accepted move removes belongs to the side opposing *)
(* the mover: an Attackers move removes no Attacker, a Defenders move (of  *)
(* a Defender or of the King) removes no Defender and not the King.        *)
C17_NoSameSideCapture ==
    [][ret' = "Ok" =>
          /\ Side(At(lastMv'[1].from)) = current_player
          /\ \A pos \in Removed(lastMv'[1]) :
                Side(At(pos)) # Side(At(lastMv'[1].from))
          /\ current_player = "Defenders" =>
                (king_position' # <<>> /\ Count("Defender")' = Count("Defender"))
          /\ current_player = "Attackers" =>
                Count("Attacker")' = Count("Attacker")]_vars

(* the moved piece stands next to a piece of its own side that has a       *)
(* hostile piece, the throne or a corner right behind it                   *)
C17_Witness ==
    /\ ret = "Ok"
    /\ lastMv # <<>>
    /\ At(lastMv[1].to) # "None"
    /\ \E i \in 1 .. 4 :
          LET n == Step(lastMv[1].to, i)
              o == Step(n, i)
          IN /\ OnBoard(n) /\ OnBoard(o)
             /\ At(n) # "None"
             /\ Side(At(n)) = Side(At(lastMv[1].to))
             /\ \/ o \in Corners \cup {Throne}
                \/ (At(n) = "Attacker" /\ At(o) \in {"Defender", "King"})
                \/ (At(n) \in {"Defender", "King"} /\ At(o) = "Attacker")

(* C18: the pieces an accepted move removes are exactly the neighbours of *)
(* the destination that satisfy can_capture on the state as it stands      *)
(* right after the piece is relocated, each judged on that one state       *)
(* whatever the other directions removed; they are three at most.          *)
C18_CapturesIndependent ==
    [][ret' = "Ok" =>
          \A s \in {relocate(Self, lastMv'[1])} :
             /\ Removed(lastMv'[1]) =
                   {n \in Neighbours(lastMv'[1].to) :
                       /\ OnBoard(n)
                       /\ s.board[n.row][n.col] # "None"
                       /\ can_capture(s, lastMv'[1].to, n)}
             /\ captured' = Removed(lastMv'[1])
             /\ Cardinality(captured') <= 3]_vars

(* one move removed three pieces *)
C18_Witness ==
    /\ ret = "Ok"
    /\ lastMv # <<>>
    /\ Cardinality(captured) = 3
    /\ captured \subseteq Neighbours(lastMv[1].to)

(* C19: the King leaves the board only on an accepted move of an Attacker *)
(* whose destination is an orthogonal neighbour of the King's square; an   *)
(* accepted move of the King to a cell that is not a corner leaves the     *)
(* King on that cell and result unset, whatever surrounds the cell.        *)
C19_KingRemovedByAdjacentAttacker ==
    [][/\ (king_position # <<>> /\ king_position' = <<>>) =>
             /\ ret' = "Ok"
             /\ current_player = "Attackers"
             /\ At(lastMv'[1].from) = "Attacker"
             /\ lastMv'[1].to \in Neighbours(king_position[1])
       /\ (ret' = "Ok" /\ At(lastMv'[1].from) = "King"
              /\ lastMv'[1].to \notin Corners) =>
             /\ king_position' = <<lastMv'[1].to>>
             /\ board'[lastMv'[1].to.row][lastMv'[1].to.col] = "King"
             /\ result' = "None"]_vars

(* the King has just moved onto a cell with all four neighbours on the     *)
(* board and each an Attacker, the throne or a corner                      *)
C19_Witness ==
    /\ ret = "Ok"
    /\ lastMv # <<>>
    /\ At(lastMv[1].to) = "King"
    /\ lastMv[1].to \notin Corners
    /\ result = "None"
    /\ \A n \in Neighbours(lastMv[1].to) :
          OnBoard(n) /\ (At(n) = "Attacker" \/ n \in Corners \cup {Throne})

(* C20: in a decided game the side to move is the side that lost:         *)
(* AttackersWin goes with Defenders to move, DefendersWin with Attackers   *)
(* to move.                                                                *)
C20_LoserToMove ==
    /\ result = "AttackersWin" => current_player = "Defenders"
    /\ result = "DefendersWin" => current_player = "Attackers"

(* the game the King won by reaching a corner, with calls made after it *)
C20_Witness ==
    /\ result = "DefendersWin"
    /\ current_player = "Attackers"
    /\ ret = "GameOver"
    /\ lastMv # <<>>
    /\ At(lastMv[1].to) = "King"

(* the score of a move of the side to move, from the state next it leads   *)
(* to: 1000 or -1000 when no King is left, else the count of the mover's   *)
(* side against the other, Defenders counting twice                        *)
Score(next) ==
    LET n(p) == Cardinality({rc \in (0 .. (board_size - 1)) \X (0 .. (board_size - 1)) :
                                next.board[rc[1]][rc[2]] = p})
    IN IF n("King") = 0
       THEN (IF current_player = "Attackers" THEN 1000 ELSE -1000)
       ELSE IF current_player = "Attackers"
            THEN n("Attacker") - 2 * n("Defender")
            ELSE 2 * n("Defender") - n("Attacker")

(* C21: get_move leaves the state it is given unchanged; it returns none  *)
(* exactly when legal_moves() is empty; otherwise it returns a move of     *)
(* legal_moves() whose score no other legal move exceeds, and when         *)
(* Attackers are to move and some legal move takes the King, the move      *)
(* returned takes the King and scores 1000.                                *)
C21_GreedyChoice ==
    /\ [][botRet' # <<>> => UNCHANGED state_vars]_vars
    /\ [](botRet # <<>> =>
            \A legal \in {Range(legal_moves(Self))} :
               /\ botRet[1] = <<>> <=> legal = {}
               /\ botRet[1] # <<>> =>
                     \A chosen \in {apply_move(Self, botRet[1][1])} :
                        \A best \in {Score(chosen)} :
                           /\ botRet[1][1] \in legal
                           /\ \A mv \in legal :
                                 \A next \in {apply_move(Self, mv)} :
                                    /\ Score(next) <= best
                                    /\ (current_player = "Attackers"
                                           /\ next.king_position = <<>>) =>
                                          (best = 1000 /\ chosen.king_position = <<>>))

(* Attackers to move, the bot returned a move that takes the King, and it  *)
(* is not the last of legal_moves(), which holds moves of lower score      *)
C21_Witness ==
    /\ botRet # <<>>
    /\ botRet[1] # <<>>
    /\ current_player = "Attackers"
    /\ apply_move(Self, botRet[1][1]).king_position = <<>>
    /\ \E moves \in {legal_moves(Self)} :
          /\ moves[Len(moves)] # botRet[1][1]
          /\ Score(apply_move(Self, moves[Len(moves)])) < 1000

====
